---- MODULE Spec2Model ----
(***************************************************************************)
(* A model of mcap2csv.py: flatten_ros_message (the flattener) and main    *)
(* (ingest loop, per-topic accumulation, DataFrame assembly, CSV writes).  *)
(*                                                                         *)
(* Python values are records [kind, val, den, slots, items]:               *)
(*   kind = "basic"  an int/float/str/bool; the number is val / den        *)
(*   kind = "list"   a list or tuple, items its elements                   *)
(*   kind = "msg"    an object with __slots__; items[i] is                 *)
(*                   getattr(obj, slots[i])                                *)
(*   kind = "other"  anything else (bytes, None, dict, ...)                *)
(*   kind = "nan"    pandas' missing marker                                *)
(*   kind = "none"   None, the ros_msg of an entry that failed to decode   *)
(* A Python dict is an insertion-ordered sequence of <<key, value>> pairs  *)
(* with distinct keys.  Keys are strings; topic names are sequences of     *)
(* one-character strings so that replace and strip can be computed.        *)
(***************************************************************************)
EXTENDS Integers, Sequences, FiniteSets, TLC

VARIABLES
    msg,                \* flatten_ros_message: the argument msg
    prefix,             \* flatten_ros_message: the argument prefix
    flattened_ros_msg,  \* flatten_ros_message: the returned dict
    fpc,                \* flatten_ros_message: "call" or "return"
    pc,                 \* main: "reading", "loop_done", "writing" or "exited"
    stream,             \* the entries read_ros2_messages has yielded so far
    message_counter,    \* main: message_counter
    topic_data,         \* main: topic_data, a dict from topic to list of rows
    widx,               \* main: position of the loop over topic_data.items()
    written,            \* the [topic, csv_file, df] of every to_csv call so far
    files,              \* the output directory: csv_file -> table
    log,                \* the logging calls at warning level and above
    exit_status         \* "running", "exit 0" or "exit 1"

fvars == <<msg, prefix, flattened_ros_msg, fpc>>
mvars == <<pc, stream, message_counter, topic_data, widx, written, files, log,
           exit_status>>
vars == <<fvars, mvars>>

-----------------------------------------------------------------------------
(* Bounds of the model.                                                    *)
MaxDepth == 3       \* nesting depth of the values given to the flattener
MaxSeqLen == 2      \* longest list inside a value
MaxFields == 2      \* most fields of one message
MaxRecords == 3     \* most entries the reader yields in one run

-----------------------------------------------------------------------------
(* Python values.                                                          *)
Basic(n) == [kind |-> "basic", val |-> n, den |-> 1, slots |-> <<>>, items |-> <<>>]
List(elems) == [kind |-> "list", val |-> 0, den |-> 1, slots |-> <<>>, items |-> elems]
Message(names, vals) == [kind |-> "msg", val |-> 0, den |-> 1, slots |-> names, items |-> vals]
Other == [kind |-> "other", val |-> 0, den |-> 1, slots |-> <<>>, items |-> <<>>]
NaN == [kind |-> "nan", val |-> 0, den |-> 1, slots |-> <<>>, items |-> <<>>]
None == [kind |-> "none", val |-> 0, den |-> 1, slots |-> <<>>, items |-> <<>>]

\* isinstance(value, (int, float, str, bool))
IsBasicAny(value) == value.kind \in {"basic", "other"}
IsBasic(value) == value.kind = "basic"

\* isinstance(value, (list, tuple))
IsListOrTuple(value) == value.kind = "list"

\* hasattr(value, "__slots__")
HasSlots(value) == value.kind = "msg"

-----------------------------------------------------------------------------
(* Python dicts, insertion-ordered.                                        *)
EmptyDict == <<>>

DictHas(d, k) == \E i \in 1..Len(d) : d[i][1] = k

DictGet(d, k) == d[CHOOSE i \in 1..Len(d) : d[i][1] = k][2]

DictKeys(d) == [i \in 1..Len(d) |-> d[i][1]]

\* d[k] = v : an existing key keeps its position, a new key goes last
DictSet(d, k, v) ==
    IF DictHas(d, k)
    THEN [i \in 1..Len(d) |-> IF d[i][1] = k THEN <<k, v>> ELSE d[i]]
    ELSE Append(d, <<k, v>>)

\* d.update(e)
RECURSIVE DictUpdate(_, _)
DictUpdate(d, e) ==
    IF e = <<>> THEN d
    ELSE DictUpdate(DictSet(d, e[1][1], e[1][2]), Tail(e))

-----------------------------------------------------------------------------
(* flatten_ros_message                                                     *)

\* key = prefix + "." + field_name if prefix else field_name
FieldKey(pfx, field_name) == IF pfx # "" THEN pfx \o "." \o field_name ELSE field_name

\* f"{key}[{i}]"
ElemKeyNoIndex(key, i) == key \o "[]"
ElemKey(key, i) == key \o "[" \o ToString(i) \o "]"

RECURSIVE flatten_ros_message(_, _), FieldLoop(_, _, _), ElemLoop(_, _, _, _)

\* for i, v in enumerate(value): the dict after the first n elements
ElemLoop(value, key, n, acc) ==
    IF n = 0 THEN acc
    ELSE LET d == ElemLoop(value, key, n - 1, acc)
             i == n - 1
             v == value.items[n]
         IN  IF IsBasic(v) THEN DictSet(d, ElemKey(key, i), v)
             ELSE IF HasSlots(v)
                  THEN DictUpdate(d, flatten_ros_message(v, ElemKey(key, i)))
                  ELSE d

\* for field_name in msg.__slots__: the dict after the first n fields
FieldLoop(m, pfx, n) ==
    IF n = 0 THEN EmptyDict
    ELSE LET d == FieldLoop(m, pfx, n - 1)
             field_name == m.slots[n]
             value == m.items[n]
             key == FieldKey(pfx, field_name)
         IN  IF IsBasic(value) THEN DictSet(d, key, value)
             ELSE IF IsListOrTuple(value)
                  THEN ElemLoop(value, key, Len(value.items), d)
                  ELSE IF HasSlots(value)
                       THEN DictUpdate(d, flatten_ros_message(value, key))
                       ELSE d

flatten_ros_message(m, pfx) ==
    IF HasSlots(m) THEN FieldLoop(m, pfx, Len(m.slots))
    ELSE IF IsBasic(m) THEN DictSet(EmptyDict, pfx, m)
         ELSE EmptyDict

-----------------------------------------------------------------------------
(* The values given to the flattener: a scalar, an unsupported value, an   *)
(* empty list or an empty message, wrapped at most MaxDepth times.  A      *)
(* wrapping puts the value at position p of a list or of a message of      *)
(* length n with scalars at the other positions, or at every position of a *)
(* list of length n.                                                       *)
SlotNames == <<"x", "y", "z", "w">>

Filler(i) == Basic(10 + i)

BaseValues == {Basic(7), Other, List(<<>>), Message(<<>>, <<>>)}

Wrappings ==
    {w \in [shape : {"list"}, n : 1..MaxSeqLen, p : 1..MaxSeqLen] : w.p <= w.n}
    \cup {w \in [shape : {"msg"}, n : 1..MaxFields, p : 1..MaxFields] : w.p <= w.n}
    \cup [shape : {"same"}, n : 2..MaxSeqLen, p : {1}]

Wrap(w, v) ==
    CASE w.shape = "list" -> List([i \in 1..w.n |-> IF i = w.p THEN v ELSE Filler(i)])
      [] w.shape = "msg" ->
           Message(SubSeq(SlotNames, 1, w.n),
                   [i \in 1..w.n |-> IF i = w.p THEN v ELSE Filler(i)])
      [] w.shape = "same" -> List([i \in 1..w.n |-> v])

\* ws[1] is the innermost wrapping
RECURSIVE WrapAll(_, _)
WrapAll(ws, v) == IF ws = <<>> THEN v ELSE WrapAll(Tail(ws), Wrap(ws[1], v))

Prefixes == {"", "p"}

-----------------------------------------------------------------------------
(* A call of flatten_ros_message.                                          *)
MainIdle ==
    /\ pc = "reading"
    /\ stream = <<>>
    /\ message_counter = 0
    /\ topic_data = EmptyDict
    /\ widx = 1
    /\ written = <<>>
    /\ files = <<>>
    /\ log = <<>>
    /\ exit_status = "running"

FlattenInit ==
    /\ MainIdle
    /\ \E d \in 0..MaxDepth : \E ws \in [1..d -> Wrappings] : \E v \in BaseValues :
         msg = WrapAll(ws, v)
    /\ prefix \in Prefixes
    /\ flattened_ros_msg = EmptyDict
    /\ fpc = "call"

FlattenCall ==
    /\ fpc = "call"
    /\ flattened_ros_msg' = flatten_ros_message(msg, prefix)
    /\ fpc' = "return"
    /\ UNCHANGED <<msg, prefix>>
    /\ UNCHANGED mvars

FlattenSpec == FlattenInit /\ [][FlattenCall]_vars

-----------------------------------------------------------------------------
(* What the flattener is to return, stated on the tree of the record: the  *)
(* scalar leaves with the path that leads to each.  A path is a sequence   *)
(* of <<"field", name>> and <<"index", i>> steps.                          *)

\* a record of scalars, records, and sequences of scalars and records
RECURSIVE IsRecordTree(_)
IsRecordTree(v) ==
    /\ v.kind = "msg"
    /\ \A i \in 1..Len(v.items) :
         LET child == v.items[i]
         IN  \/ child.kind = "basic"
             \/ child.kind = "msg" /\ IsRecordTree(child)
             \/ /\ child.kind = "list"
                /\ \A j \in 1..Len(child.items) :
                     \/ child.items[j].kind = "basic"
                     \/ child.items[j].kind = "msg" /\ IsRecordTree(child.items[j])

RECURSIVE Leaves(_, _)
Leaves(v, path) ==
    UNION { LET child == v.items[i]
                p == Append(path, <<"field", v.slots[i]>>)
            IN  CASE child.kind = "basic" -> {<<p, child>>}
                  [] child.kind = "msg" -> Leaves(child, p)
                  [] child.kind = "list" ->
                       UNION { LET e == child.items[j]
                                   q == Append(p, <<"index", ToString(j - 1)>>)
                               IN  CASE e.kind = "basic" -> {<<q, e>>}
                                     [] e.kind = "msg" -> Leaves(e, q)
                                     [] OTHER -> {}
                               : j \in 1..Len(child.items) }
                  [] OTHER -> {}
            : i \in 1..Len(v.slots) }

\* field names joined by ".", "[i]" appended for a sequence element
RECURSIVE PathKey(_)
PathKey(path) ==
    IF path = <<>> THEN ""
    ELSE LET init == PathKey(SubSeq(path, 1, Len(path) - 1))
             step == path[Len(path)]
         IN  IF step[1] = "index" THEN init \o "[" \o step[2] \o "]"
             ELSE IF init = "" THEN step[2] ELSE init \o "." \o step[2]

PrefixedKey(pfx, path) == IF pfx = "" THEN PathKey(path) ELSE pfx \o "." \o PathKey(path)

DictItems(d) == {d[i] : i \in 1..Len(d)}

\* C7: for a record built from scalar fields, nested records, sequences of
\* scalars and sequences of nested records, flatten_ros_message returns
\* exactly one entry per scalar leaf and nothing else: its key is the field
\* names on the path joined by ".", with "[i]" after a sequence field for
\* its element i, no leading "." under an empty prefix, and its value is
\* the leaf's value.
C7_OneEntryPerLeaf ==
    (fpc = "return" /\ IsRecordTree(msg)) =>
        LET leaves == Leaves(msg, <<>>)
        IN  /\ Len(flattened_ros_msg) = Cardinality(leaves)
            /\ DictItems(flattened_ros_msg)
                 = {<<PrefixedKey(prefix, l[1]), l[2]>> : l \in leaves}

PointsRecord ==
    Message(<<"x", "y">>,
            <<Basic(11),
              List(<<Message(<<"x", "y">>, <<Basic(11), Basic(7)>>),
                     Message(<<"x", "y">>, <<Basic(11), Basic(7)>>)>>)>>)

C7_Witness ==
    /\ fpc = "return"
    /\ prefix = ""
    /\ msg = PointsRecord
    /\ DictKeys(flattened_ros_msg) = <<"x", "y[0].x", "y[0].y", "y[1].x", "y[1].y">>

\* the value with every unsupported field or sequence element replaced, in
\* place, by a record that has no fields
RECURSIVE Blank(_, _)
Blank(v, inSequence) ==
    CASE v.kind = "basic" -> v
      [] v.kind = "msg" ->
           Message(v.slots, [i \in 1..Len(v.items) |-> Blank(v.items[i], FALSE)])
      [] v.kind = "list" /\ ~inSequence ->
           List([j \in 1..Len(v.items) |-> Blank(v.items[j], TRUE)])
      [] OTHER -> Message(<<>>, <<>>)

\* C10: flatten_ros_message returns for every value; an unsupported field or
\* sequence element contributes no entry and leaves the entries of the
\* other fields and elements as they are without it (same keys, same
\* indices, same order), and every value of the returned row is a scalar.
C10_UnsupportedSkipped ==
    fpc = "return" =>
        /\ \A i \in 1..Len(flattened_ros_msg) : flattened_ros_msg[i][2].kind = "basic"
        /\ msg.kind \in {"basic", "msg"} =>
             flattened_ros_msg = flatten_ros_message(Blank(msg, TRUE), prefix)
        /\ msg.kind \notin {"basic", "msg"} => flattened_ros_msg = EmptyDict

SkippedElementRecord ==
    Message(<<"x", "y">>, <<List(<<Other, Basic(12)>>), Basic(12)>>)

C10_Witness ==
    /\ fpc = "return"
    /\ prefix = ""
    /\ msg = SkippedElementRecord
    /\ flattened_ros_msg = << <<"x[1]", Basic(12)>>, <<"y", Basic(12)>> >>

-----------------------------------------------------------------------------
(* pandas: a DataFrame is [columns, rows]; rows[r][c] is the cell of row r *)
(* in column columns[c].                                                   *)

ColumnIndex(columns, name) == CHOOSE c \in 1..Len(columns) : columns[c] = name

HasColumn(columns, name) == \E c \in 1..Len(columns) : columns[c] = name

\* the keys of a list of dicts in first-seen order
RECURSIVE AppendNewKeys(_, _)
AppendNewKeys(columns, keys) ==
    IF keys = <<>> THEN columns
    ELSE AppendNewKeys(IF HasColumn(columns, keys[1]) THEN columns
                       ELSE Append(columns, keys[1]),
                       Tail(keys))

RECURSIVE FirstSeenKeys(_)
FirstSeenKeys(messages) ==
    IF messages = <<>> THEN <<>>
    ELSE AppendNewKeys(FirstSeenKeys(SubSeq(messages, 1, Len(messages) - 1)),
                       DictKeys(messages[Len(messages)]))

\* pd.DataFrame(messages)
DataFrame(messages) ==
    LET columns == FirstSeenKeys(messages)
    IN  [columns |-> columns,
         rows |-> [r \in 1..Len(messages) |->
                     [c \in 1..Len(columns) |->
                        IF DictHas(messages[r], columns[c])
                        THEN DictGet(messages[r], columns[c])
                        ELSE NaN]]]

\* df[name]
GetColumn(df, name) ==
    [r \in 1..Len(df.rows) |-> df.rows[r][ColumnIndex(df.columns, name)]]

\* df[name] = series : an existing column is replaced in place, a new one
\* goes last
SetColumn(df, name, series) ==
    IF HasColumn(df.columns, name)
    THEN [columns |-> df.columns,
          rows |-> [r \in 1..Len(df.rows) |->
                      [c \in 1..Len(df.columns) |->
                         IF df.columns[c] = name THEN series[r] ELSE df.rows[r][c]]]]
    ELSE [columns |-> Append(df.columns, name),
          rows |-> [r \in 1..Len(df.rows) |-> Append(df.rows[r], series[r])]]

\* df[ordered_cols]
SelectColumns(df, ordered_cols) ==
    [columns |-> ordered_cols,
     rows |-> [r \in 1..Len(df.rows) |->
                 [c \in 1..Len(ordered_cols) |->
                    df.rows[r][ColumnIndex(df.columns, ordered_cols[c])]]]]

\* list.remove(x): the list without the first x
RemoveFirst(list, x) ==
    LET i == CHOOSE j \in 1..Len(list) :
                 list[j] = x /\ \A k \in 1..(j - 1) : list[k] # x
    IN  SubSeq(list, 1, i - 1) \o SubSeq(list, i + 1, Len(list))

\* df.drop(columns=[name])
DropColumn(df, name) ==
    LET kept == SelectSeq(df.columns, LAMBDA col : col # name)
    IN  SelectColumns(df, kept)

\* pd.to_numeric(series, errors="coerce")
ToNumeric(series) ==
    [r \in 1..Len(series) |-> IF series[r].kind = "basic" THEN series[r] ELSE NaN]

RECURSIVE GCD(_, _)
GCD(a, b) == IF b = 0 THEN a ELSE GCD(b, a % b)

NsPerSecond == 1000000000

\* series / 1_000_000_000.0 : the quotient as a fraction in lowest terms
DivideBy(series, divisor) ==
    [r \in 1..Len(series) |->
       IF series[r].kind = "nan" THEN NaN
       ELSE LET num == series[r].val
                den == series[r].den * divisor
                g == GCD(num, den)
            IN  [series[r] EXCEPT !.val = num \div g, !.den = den \div g]]

-----------------------------------------------------------------------------
(* main: the assembly of one topic's table (lines 164-222)                 *)

TopicRosout == <<"/", "r", "o", "s", "o", "u", "t">>

\* topic == "/rosout"
IsAnyTopic(topic) == TRUE
IsRosout(topic) == topic = TopicRosout

\* col not in ["log_timestamp", "log_timestamp_ns"]
IsOtherColKeepTimestamp(col) == col # "log_timestamp_ns"
IsOtherCol(col) == col \notin {"log_timestamp", "log_timestamp_ns"}

\* if name in other_cols (and cond): ordered_cols.append(name);
\* other_cols.remove(name).  The pair <<ordered_cols, other_cols>> after it.
MoveToFront(lists, name, cond) ==
    IF HasColumn(lists[2], name) /\ cond
    THEN <<Append(lists[1], name), RemoveFirst(lists[2], name)>>
    ELSE lists

OrderedCols(topic, columns) ==
    LET other_cols == SelectSeq(columns, IsOtherCol)
        l0 == << <<"log_timestamp">>, other_cols >>
        l1 == MoveToFront(l0, "header.stamp.sec", TRUE)
        l2 == MoveToFront(l1, "header.stamp.nanosec", TRUE)
        l3 == MoveToFront(l2, "stamp.sec", IsRosout(topic))
        l4 == MoveToFront(l3, "stamp.nanosec", IsRosout(topic))
    IN  l4[1] \o l4[2]

\* the DataFrame that is written for a topic
TopicDataFrame(topic, messages) ==
    LET df0 == DataFrame(messages)
    IN  IF HasColumn(df0.columns, "log_timestamp_ns")
        THEN LET df1 == SetColumn(df0, "log_timestamp_ns",
                                  ToNumeric(GetColumn(df0, "log_timestamp_ns")))
                 df2 == SetColumn(df1, "log_timestamp",
                                  DivideBy(GetColumn(df1, "log_timestamp_ns"),
                                           NsPerSecond))
                 df3 == SelectColumns(df2, OrderedCols(topic, df2.columns))
             IN  IF HasColumn(df3.columns, "log_timestamp_ns")
                 THEN DropColumn(df3, "log_timestamp_ns")
                 ELSE df3
        ELSE df0

\* topic.replace("/", "_")
ReplaceSlashes(topic) == [i \in 1..Len(topic) |-> IF topic[i] = "/" THEN "_" ELSE topic[i]]

\* name.strip("_")
RECURSIVE StripUnderscores(_)
StripUnderscores(name) ==
    IF name = <<>> THEN name
    ELSE IF name[1] = "_" THEN StripUnderscores(Tail(name))
    ELSE IF name[Len(name)] = "_" THEN StripUnderscores(SubSeq(name, 1, Len(name) - 1))
    ELSE name

\* the file name under output_path
CsvFile(topic) == StripUnderscores(ReplaceSlashes(topic)) \o <<".", "c", "s", "v">>

-----------------------------------------------------------------------------
(* main: the entries the reader can yield                                  *)

TopicAB == <<"/", "a", "/", "b">>
TopicA_B == <<"/", "a", "_", "b">>

Topics == {TopicRosout, TopicAB, TopicA_B}

Stamp(sec, nanosec) == Message(<<"sec", "nanosec">>, <<Basic(sec), Basic(nanosec)>>)

\* velocity, stamp.sec, stamp.nanosec, header.stamp.sec, header.stamp.nanosec
StampedPayload ==
    Message(<<"velocity", "stamp", "header">>,
            <<Basic(4), Stamp(2, 5), Message(<<"stamp">>, <<Stamp(5, 100)>>)>>)

\* a payload whose own fields are named log_timestamp and log_timestamp_ns,
\* with only the nanosec halves of the stamps
ClashingPayload ==
    Message(<<"log_timestamp", "stamp", "log_timestamp_ns", "header">>,
            <<Basic(7), Message(<<"nanosec">>, <<Basic(6)>>), Basic(9),
              Message(<<"stamp">>, <<Message(<<"nanosec">>, <<Basic(8)>>)>>)>>)

\* a message type without fields
EmptyPayload == Message(<<>>, <<>>)

Payloads == {StampedPayload, ClashingPayload, EmptyPayload}

\* the recording clock: the n-th entry of a bag is logged half a second
\* after the one before it
LogTimeAt(n) == n * 500000000

\* what the reader can yield as its n-th entry
ReaderEntries(n) ==
    [topic : Topics, ros_msg : Payloads \cup {None}, log_time : {LogTimeAt(n)}]

-----------------------------------------------------------------------------
(* main                                                                    *)

\* ros_msg is None
NeverNone(ros_msg) == FALSE
IsNone(ros_msg) == ros_msg = None

\* flat_msg["log_timestamp_ns"] = msg_entry.log_time
SetLogTimeIfAbsent(flat_msg, log_time) ==
    IF DictHas(flat_msg, "log_timestamp_ns") THEN flat_msg
    ELSE DictSet(flat_msg, "log_timestamp_ns", Basic(log_time))
SetLogTime(flat_msg, log_time) == DictSet(flat_msg, "log_timestamp_ns", Basic(log_time))

\* topic_data[topic].append(flat_msg), creating the list on first use
AppendRow(data, topic, flat_msg) ==
    LET d == IF DictHas(data, topic) THEN data ELSE DictSet(data, topic, <<>>)
    IN  DictSet(d, topic, Append(DictGet(d, topic), flat_msg))

\* not topic_data
AlwaysData(data) == FALSE
NoData(data) == data = EmptyDict

\* where the except clause leaves the run: sys.exit(1)
FallThroughExcept == "loop_done"
AfterExcept == "exited"

Init ==
    /\ MainIdle
    /\ msg = None
    /\ prefix = ""
    /\ flattened_ros_msg = EmptyDict
    /\ fpc = "call"

\* one iteration of the loop over read_ros2_messages (lines 114-146)
ReadRecord ==
    /\ pc = "reading"
    /\ message_counter < MaxRecords
    /\ \E msg_entry \in ReaderEntries(message_counter + 1) :
         LET topic == msg_entry.topic
             ros_msg == msg_entry.ros_msg
             flat_msg == SetLogTime(flatten_ros_message(ros_msg, ""), msg_entry.log_time)
         IN  /\ stream' = Append(stream, msg_entry)
             /\ message_counter' = message_counter + 1
             /\ IF IsNone(ros_msg)
                THEN /\ log' = Append(log, [level |-> "warning",
                                             what |-> "deserialization failure",
                                             topic |-> topic])
                     /\ UNCHANGED topic_data
                ELSE IF flat_msg = EmptyDict
                THEN UNCHANGED <<log, topic_data>>
                ELSE /\ topic_data' = AppendRow(topic_data, topic, flat_msg)
                     /\ UNCHANGED log
    /\ UNCHANGED <<pc, widx, written, files, exit_status>>
    /\ UNCHANGED fvars

\* read_ros2_messages raises while it is iterated (lines 150-152)
ReaderRaises ==
    /\ pc = "reading"
    /\ log' = Append(log, [level |-> "error", what |-> "reader error", topic |-> <<>>])
    /\ pc' = AfterExcept
    /\ exit_status' = "exit 1"
    /\ UNCHANGED <<stream, message_counter, topic_data, widx, written, files>>
    /\ UNCHANGED fvars

\* read_ros2_messages is exhausted (line 148)
StreamEnds ==
    /\ pc = "reading"
    /\ pc' = "loop_done"
    /\ UNCHANGED <<stream, message_counter, topic_data, widx, written, files, log,
                   exit_status>>
    /\ UNCHANGED fvars

\* lines 154-162: leave with status 0 when nothing was extracted, else
\* enter the loop over topic_data.items()
CheckTopicData ==
    /\ pc = "loop_done"
    /\ IF NoData(topic_data)
       THEN /\ log' = Append(log, [level |-> "warning", what |-> "no data",
                                    topic |-> <<>>])
            /\ pc' = "exited"
            /\ exit_status' = "exit 0"
       ELSE /\ pc' = IF Len(topic_data) = 0 THEN "exited" ELSE "writing"
            /\ exit_status' = IF Len(topic_data) = 0 THEN "exit 0" ELSE exit_status
            /\ UNCHANGED log
    /\ UNCHANGED <<stream, message_counter, topic_data, widx, written, files>>
    /\ UNCHANGED fvars

\* one iteration of the loop over topic_data.items() (lines 162-232); main
\* returns after the last one
WriteTopic ==
    /\ pc = "writing"
    /\ widx <= Len(topic_data)
    /\ LET topic == topic_data[widx][1]
           messages == topic_data[widx][2]
           df == TopicDataFrame(topic, messages)
           csv_file == CsvFile(topic)
       IN  /\ log' = IF HasColumn(DataFrame(messages).columns, "log_timestamp_ns")
                     THEN log
                     ELSE Append(log, [level |-> "warning", what |-> "no timestamp",
                                       topic |-> topic])
           /\ files' = [f \in DOMAIN files \cup {csv_file} |->
                          IF f = csv_file THEN df ELSE files[f]]
           /\ written' = Append(written, [topic |-> topic, csv_file |-> csv_file,
                                          df |-> df])
    /\ widx' = widx + 1
    /\ pc' = IF widx = Len(topic_data) THEN "exited" ELSE "writing"
    /\ exit_status' = IF widx = Len(topic_data) THEN "exit 0" ELSE exit_status
    /\ UNCHANGED <<stream, message_counter, topic_data>>
    /\ UNCHANGED fvars

Next ==
    \/ ReadRecord
    \/ ReaderRaises
    \/ StreamEnds
    \/ CheckTopicData
    \/ WriteTopic

Spec == Init /\ [][Next]_vars

-----------------------------------------------------------------------------
(* Properties of a run of main.                                            *)

Range(seq) == {seq[i] : i \in 1..Len(seq)}

\* the entries of a topic that decoded, and the entries that did not
Decoded(topic) ==
    SelectSeq(stream, LAMBDA e : e.topic = topic /\ e.ros_msg # None)

Failed == SelectSeq(stream, LAMBDA e : e.ros_msg = None)

Logged(what) == SelectSeq(log, LAMBDA l : l.what = what)

NoFileWritten == written = <<>> /\ DOMAIN files = {}

\* the accumulated rows of a topic that has a bucket
RowsOf(topic) == DictGet(topic_data, topic)

KeySet(row) == {row[i][1] : i \in 1..Len(row)}

\* the column universe of a topic
Universe(topic) == UNION {KeySet(row) : row \in Range(RowsOf(topic))}

\* the cell is ns nanoseconds in seconds
IsSecondsOf(cell, ns) ==
    /\ cell.kind = "basic"
    /\ NsPerSecond % cell.den = 0
    /\ cell.val * (NsPerSecond \div cell.den) = ns

\* C1: no table is written before the reader's sequence is consumed, and a
\* reader error during the iteration, after any number of records, ends
\* the run with status 1 and no table written.
C1_NoWriteBeforeStreamEnd ==
    /\ pc = "reading" => NoFileWritten
    /\ Logged("reader error") # <<>> =>
         /\ pc = "exited"
         /\ exit_status = "exit 1"
         /\ NoFileWritten

C1_Witness ==
    /\ Logged("reader error") # <<>>
    /\ Len(topic_data) = 2
    /\ Len(stream) = 3
    /\ pc = "exited"

\* C2: records that fail to decode do not abort the run, each logs one
\* warning naming its topic, and the table of a topic has one row per
\* decoded record of the topic, in arrival order.
C2_DecodeFailuresSkipped ==
    /\ [i \in 1..Len(Logged("deserialization failure")) |->
            Logged("deserialization failure")[i].topic]
         = [i \in 1..Len(Failed) |-> Failed[i].topic]
    /\ exit_status = "exit 1" => Logged("reader error") # <<>>
    /\ \A i \in 1..Len(topic_data) :
         Len(topic_data[i][2]) = Len(Decoded(topic_data[i][1]))
    /\ \A t \in Topics : Decoded(t) # <<>> => DictHas(topic_data, t)
    /\ \A w \in Range(written) :
         /\ Len(w.df.rows) = Len(Decoded(w.topic))
         /\ \A r \in 1..Len(w.df.rows) :
              IsSecondsOf(w.df.rows[r][ColumnIndex(w.df.columns, "log_timestamp")],
                          Decoded(w.topic)[r].log_time)
    /\ (pc = "exited" /\ exit_status = "exit 0") =>
         \A t \in Topics : Decoded(t) # <<>> => \E w \in Range(written) : w.topic = t

C2_Witness ==
    /\ pc = "exited"
    /\ Len(stream) = 3
    /\ stream[1].ros_msg # None /\ stream[2].ros_msg = None /\ stream[3].ros_msg # None
    /\ stream[1].topic = stream[2].topic /\ stream[2].topic = stream[3].topic
    /\ Len(log) = 1
    /\ Len(written) = 1
    /\ Len(written[1].df.rows) = 2

\* where a key is first seen: the first row that has it, and its place there
FirstRow(rows, k) ==
    CHOOSE r \in 1..Len(rows) :
        DictHas(rows[r], k) /\ \A q \in 1..(r - 1) : ~DictHas(rows[q], k)

PlaceIn(row, k) == CHOOSE i \in 1..Len(row) : row[i][1] = k

SeenBefore(rows, a, b) ==
    \/ FirstRow(rows, a) < FirstRow(rows, b)
    \/ /\ FirstRow(rows, a) = FirstRow(rows, b)
       /\ PlaceIn(rows[FirstRow(rows, a)], a) < PlaceIn(rows[FirstRow(rows, a)], b)

\* the columns that are put first for a topic with this universe
LeadingColumns(topic, universe) ==
    <<"log_timestamp">>
    \o SelectSeq(<<"header.stamp.sec", "header.stamp.nanosec">>,
                 LAMBDA k : k \in universe)
    \o (IF topic = TopicRosout
        THEN SelectSeq(<<"stamp.sec", "stamp.nanosec">>, LAMBDA k : k \in universe)
        ELSE <<>>)

C4_ColumnUnion ==
    \A w \in Range(written) :
        /\ Range(w.df.columns)
             = (Universe(w.topic) \cup {"log_timestamp"}) \ {"log_timestamp_ns"}
        /\ Cardinality(Range(w.df.columns)) = Len(w.df.columns)

C4_Witness ==
    \E w \in Range(written) :
        /\ Len(RowsOf(w.topic)) = 3
        /\ \E r, q \in 1..3 :
             /\ "log_timestamp" \in KeySet(RowsOf(w.topic)[r])
             /\ "velocity" \in KeySet(RowsOf(w.topic)[q])
        /\ Len(w.df.columns) = 6

\* C5: after a run that ends normally there is one file per topic with at
\* least one row, named by the sanitized topic name, holding that topic's
\* table; no topic's table is overwritten by another's.
C5_OneFilePerTopic ==
    (pc = "exited" /\ exit_status = "exit 0") =>
        /\ Cardinality(DOMAIN files) = Len(topic_data)
        /\ \A w \in Range(written) :
             /\ w.csv_file = CsvFile(w.topic)
             /\ w.csv_file \in DOMAIN files
             /\ files[w.csv_file] = w.df

\* C6: every accumulated row has a log_timestamp_ns equal to its record's
\* log time, whatever the payload holds, also for a record without fields;
\* every table written has a log_timestamp column and no log_timestamp_ns
\* column, and the missing-timestamp branch is never taken.
C6_EveryRowHasLogTime ==
    /\ \A i \in 1..Len(topic_data) :
         LET rows == topic_data[i][2]
             dec == Decoded(topic_data[i][1])
         IN  /\ Len(rows) = Len(dec)
             /\ \A r \in 1..Len(rows) :
                  /\ DictHas(rows[r], "log_timestamp_ns")
                  /\ DictGet(rows[r], "log_timestamp_ns") = Basic(dec[r].log_time)
    /\ \A w \in Range(written) :
         /\ HasColumn(w.df.columns, "log_timestamp")
         /\ ~HasColumn(w.df.columns, "log_timestamp_ns")
    /\ Logged("no timestamp") = <<>>

C6_Witness ==
    /\ pc = "exited"
    /\ \E w \in Range(written) :
         /\ w.df.columns = <<"log_timestamp">>
         /\ Len(w.df.rows) = 1
    /\ \E e \in Range(stream) : e.ros_msg = ClashingPayload

\* C8: a run whose stream ends without a decoded record ends with status 0
\* and a warning, writes no file and never enters the assembly.
C8_NoDataExitsCleanly ==
    /\ (Logged("reader error") = <<>> /\ \A e \in Range(stream) : e.ros_msg = None) =>
         /\ pc # "writing"
         /\ NoFileWritten
         /\ pc = "loop_done" => NoData(topic_data)
         /\ pc = "exited" =>
              /\ exit_status = "exit 0"
              /\ Len(log) > 0
              /\ log[Len(log)].what = "no data"
              /\ log[Len(log)].level = "warning"
    /\ pc = "writing" => \E e \in Range(stream) : e.ros_msg # None

C8_Witness ==
    /\ pc = "exited"
    /\ exit_status = "exit 0"
    /\ Len(stream) = 2
    /\ \A e \in Range(stream) : e.ros_msg = None
    /\ Len(log) = 3
    /\ NoFileWritten

\* C9: in a topic's table every cell holds its row's value for the key that
\* names the column, or the missing marker if the row lacks the key, also
\* for a payload key named log_timestamp; one table row per flat row, in
\* arrival order.  (The derived log_timestamp of a row without such a
\* payload key is exempt.)
C9_CellsAreRowValues ==
    \A w \in Range(written) :
        LET rows == RowsOf(w.topic)
        IN  /\ Len(w.df.rows) = Len(rows)
            /\ \A r \in 1..Len(w.df.rows) : \A c \in 1..Len(w.df.columns) :
                 LET col == w.df.columns[c]
                 IN  IF DictHas(rows[r], col)
                     THEN w.df.rows[r][c] = DictGet(rows[r], col)
                     ELSE col # "log_timestamp" => w.df.rows[r][c] = NaN

====
